---- MODULE Spec2Model ----
(***************************************************************************)
(* Model of Corrade::Utility::Resource (src/Corrade/Utility/Resource.cpp): *)
(* the resource compiler (compileFrom, compile, hexcode), the process-     *)
(* wide registry (registerData, unregisterData, overrideGroup) and the     *)
(* Resource object bound to one group (constructor, list, getRaw, get).    *)
(*                                                                         *)
(* Byte strings (std::string, unsigned char arrays) are sequences of       *)
(* numbers 0..255.  An unsigned int is the sequence of its sizeofUInt      *)
(* bytes in native order, so that fixed-width arithmetic is byte-wise.     *)
(***************************************************************************)
EXTENDS Integers, Sequences, FiniteSets, TLC

VARIABLES
    resources,  \* Resource::resources(): group name -> GroupData
    views,      \* the Resource objects alive in the process
    last        \* the last call made, its arguments and what it returned

vars == <<resources, views, last>>

(************************* bounds of the model ****************************)
MaxFiles == 2       \* files in a list given to compile() (CodecSpec)
MaxEntries == 2     \* [file] groups in an override configuration file

(************************* program constants ******************************)
sizeofUInt == 4     \* sizeof(unsigned int)
RowLen == 15        \* bytes per row written by hexcode()

(************************* byte strings ***********************************)
RECURSIVE SeqsUpTo(_, _)
SeqsUpTo(S, n) ==
    IF n = 0 THEN {<<>>}
    ELSE LET shorter == SeqsUpTo(S, n - 1)
         IN  shorter \cup {Append(s, x) : s \in {t \in shorter : Len(t) = n - 1}, x \in S}

\* Bytes s[from+1 .. from+len], as read through a pointer `base + from` with a
\* length.  No call the specifications make reads an array past its end; the
\* operator is total, a position past the end reads as 0.
Slice(s, from, len) ==
    [k \in 1..len |-> IF from + k <= Len(s) THEN s[from + k] ELSE 0]

(************************* unsigned int ***********************************)
RECURSIVE Pow256(_)
Pow256(i) == IF i = 0 THEN 1 ELSE 256 * Pow256(i - 1)

\* numberToString(): the sizeof(T) bytes of the number, in native (little
\* endian) byte order.  Only the low sizeofUInt bytes of n are kept.
numberToString(n) == [i \in 1..sizeofUInt |-> (n \div Pow256(i - 1)) % 256]

\* *reinterpret_cast<const unsigned int*>(p): the number held by the bytes.
RECURSIVE uintValue(_)
uintValue(u) ==
    IF Len(u) = 0 THEN 0 ELSE u[1] + 256 * uintValue(Tail(u))

\* The value an unsigned int holds after n is stored in it: n modulo
\* 2^(8*sizeofUInt), i.e. the number held by the bytes that fit.
uintWrap(n) == uintValue(numberToString(n))

(************************* generated source text **************************)
\* The text compile() writes is a sequence of tokens: "indent" is the
\* "\n    " that starts a row, "hex" is 0x followed by two hex digits,
\* "comma" is ",", "newline" is "\n", "comment" is "\n    /* name */".
Token(kind, value) == [t |-> kind, v |-> value]

\* std::hex << std::setw(2) << std::setfill('0') of one unsigned char.
hexDigits(b) == <<b \div 16, b % 16>>

RECURSIVE hexcodeFrom(_, _)
hexcodeFrom(data, i) ==
    IF i > Len(data) THEN <<>>
    ELSE (IF (i - 1) % RowLen = 0 THEN <<Token("indent", <<>>)>> ELSE <<>>)
         \o <<Token("hex", hexDigits(data[i])), Token("comma", <<>>)>>
         \o hexcodeFrom(data, i + 1)

hexcode(data) == hexcodeFrom(data, 1)

comment(text) == <<Token("comment", text)>>

\* std::string::resize(size() - 1): the last character is dropped.  Every
\* text it is applied to ends with the one-character token ",".
dropLast(text) == SubSeq(text, 1, Len(text) - 1)

\* What the C++ compiler makes of `static const unsigned char x[] = {text};`:
\* white space and comments are skipped, the rest has to be a non-empty list
\* of literals separated by commas (a trailing comma is allowed).
significant(text) == SelectSeq(text, LAMBDA tok : tok.t \in {"hex", "comma"})

arrayWellFormed(text) ==
    LET sig == significant(text)
    IN  /\ Len(sig) > 0
        /\ \A k \in 1..Len(sig) : sig[k].t = (IF k % 2 = 1 THEN "hex" ELSE "comma")

arrayBytes(text) ==
    LET lits == SelectSeq(text, LAMBDA tok : tok.t = "hex")
    IN  [k \in 1..Len(lits) |-> 16 * lits[k].v[1] + lits[k].v[2]]

(************************* Resource::compile ******************************)
\* A file given to compile(): std::pair<std::string, std::string>.
File(name, content) == [name |-> name, content |-> content]

\* The loop of compile(): st holds the three texts and the two running
\* unsigned int totals after the files before files[i].
RECURSIVE compileLoop(_, _, _)
compileLoop(files, i, st) ==
    IF i > Len(files) THEN st
    ELSE LET filenamesLen == uintWrap(st.filenamesLen + Len(files[i].name))
             dataLen == uintWrap(st.dataLen + Len(files[i].content))
             sep == IF i # 1 THEN <<Token("newline", <<>>)>> ELSE <<>>
         IN  compileLoop(files, i + 1,
                [positions |-> st.positions
                                \o hexcode(numberToString(filenamesLen))
                                \o hexcode(numberToString(dataLen)),
                 filenames |-> st.filenames \o sep
                                \o comment(files[i].name) \o hexcode(files[i].name),
                 data |-> st.data \o sep
                                \o comment(files[i].name) \o hexcode(files[i].content),
                 filenamesLen |-> filenamesLen,
                 dataLen |-> dataLen])

\* A pointer argument of registerData(): nullptr or the address of an array.
nullptr == [null |-> TRUE, bytes |-> <<>>]
Pointer(bytes) == [null |-> FALSE, bytes |-> bytes]

\* compile(): the generated source file, reduced to what decides the call of
\* registerData() in its initializer: whether the file is valid C++, and the
\* count and the three array arguments.
compile(files) ==
    IF Len(files) = 0
    THEN [valid |-> TRUE, count |-> 0,
          positions |-> nullptr, filenames |-> nullptr, data |-> nullptr]
    ELSE LET st == compileLoop(files, 1,
                      [positions |-> <<>>, filenames |-> <<>>, data |-> <<>>,
                       filenamesLen |-> 0, dataLen |-> 0])
             positions == dropLast(st.positions)
             filenames == dropLast(st.filenames)
             data == IF Len(files[Len(files)].content) # 0
                     THEN dropLast(st.data) ELSE st.data
         IN  [valid |-> /\ arrayWellFormed(positions)
                        /\ arrayWellFormed(filenames)
                        /\ (st.dataLen # 0 => arrayWellFormed(data)),
              count |-> Len(files),
              positions |-> Pointer(arrayBytes(positions)),
              filenames |-> Pointer(arrayBytes(filenames)),
              data |-> IF st.dataLen # 0 THEN Pointer(arrayBytes(data)) ELSE nullptr]

(************************* Resource::registerData *************************)
\* GroupData: the override configuration file ("" when there is none) and the
\* std::map from file name to the view of its data.
GroupData(overrideGroup, res) == [overrideGroup |-> overrideGroup, resources |-> res]

NoResources == [n \in {} |-> nullptr]

\* Mutant: the view starts at the beginning of the data array.
ArrayReferenceFromStart(data, from, size) ==
    [null |-> data.null, bytes |-> Slice(data.bytes, 0, size)]

\* Containers::ArrayReference(data + from, size).
ArrayReference(data, from, size) ==
    [null |-> data.null, bytes |-> Slice(data.bytes, from, size)]

\* Mutant: the value of a key that is already present is replaced.
emplaceOverwrite(map, key, value) ==
    [k \in DOMAIN map \cup {key} |-> IF k = key THEN value ELSE map[k]]

\* std::map::emplace(): a key that is already present keeps its value.
emplace(map, key, value) ==
    IF key \in DOMAIN map THEN map
    ELSE [k \in DOMAIN map \cup {key} |-> IF k = key THEN value ELSE map[k]]

\* Mutant: the loop reads an entry before it tests the count.
RECURSIVE registerLoopTestLast(_, _, _, _, _, _, _, _)
registerLoopTestLast(count, positions, filenames, data, i, oldFilenamePosition, oldDataPosition, map) ==
    LET filenamePosition == uintValue(Slice(positions.bytes, i * 2 * sizeofUInt, sizeofUInt))
        dataPosition == uintValue(Slice(positions.bytes, i * 2 * sizeofUInt + sizeofUInt, sizeofUInt))
        res == ArrayReference(data, oldDataPosition, uintWrap(dataPosition - oldDataPosition))
        name == Slice(filenames.bytes, oldFilenamePosition,
                      uintWrap(filenamePosition - oldFilenamePosition))
    IN  IF i + 1 >= count THEN emplace(map, name, res)
        ELSE registerLoopTestLast(count, positions, filenames, data, i + 1,
                                  filenamePosition, dataPosition, emplace(map, name, res))

\* The loop of registerData(): i counts the entries read so far.
RECURSIVE registerLoop(_, _, _, _, _, _, _, _)
registerLoop(count, positions, filenames, data, i, oldFilenamePosition, oldDataPosition, map) ==
    IF i = count THEN map
    ELSE LET filenamePosition == uintValue(Slice(positions.bytes, i * 2 * sizeofUInt, sizeofUInt))
             dataPosition == uintValue(Slice(positions.bytes, i * 2 * sizeofUInt + sizeofUInt, sizeofUInt))
             res == ArrayReference(data, oldDataPosition, uintWrap(dataPosition - oldDataPosition))
             name == Slice(filenames.bytes, oldFilenamePosition,
                           uintWrap(filenamePosition - oldFilenamePosition))
         IN  registerLoop(count, positions, filenames, data, i + 1,
                          filenamePosition, dataPosition, emplace(map, name, res))

\* Mutant: a group that is already registered is registered anew.
registerDataAgain(reg, group, count, positions, filenames, data) ==
    [g \in DOMAIN reg \cup {group} |->
        IF g = group
        THEN GroupData("", registerLoop(count, positions, filenames, data, 0, 0, 0, NoResources))
        ELSE reg[g]]

\* registerData(): the registry after the call.
registerData(reg, group, count, positions, filenames, data) ==
    IF group \in DOMAIN reg THEN reg
    ELSE [g \in DOMAIN reg \cup {group} |->
            IF g = group
            THEN GroupData("", registerLoop(count, positions, filenames, data, 0, 0, 0, NoResources))
            ELSE reg[g]]

(************************* the counters of large files ********************)
\* A file too large to be written out as a sequence is given by its sizes,
\* FileSize(name, content), each a std::size_t as its bytes in native order;
\* an unsigned int counter is its sizeofUInt bytes, and the arithmetic of
\* compile() and registerData() is done byte by byte.
FileSize(name, content) == [name |-> name, content |-> content]

\* unsigned int += std::size_t: the sum, of which the bytes that fit in the
\* unsigned int u are kept.
RECURSIVE uintAdd(_, _, _)
uintAdd(u, n, carry) ==
    IF Len(u) = 0 THEN <<>>
    ELSE LET sum == u[1] + (IF Len(n) > 0 THEN n[1] ELSE 0) + carry
         IN  <<sum % 256>>
             \o uintAdd(Tail(u), IF Len(n) > 0 THEN Tail(n) ELSE <<>>, sum \div 256)

\* unsigned int - unsigned int.
RECURSIVE uintSub(_, _, _)
uintSub(u, v, borrow) ==
    IF Len(u) = 0 THEN <<>>
    ELSE LET diff == u[1] - v[1] - borrow
         IN  <<(diff + 256) % 256>>
             \o uintSub(Tail(u), Tail(v), IF diff < 0 THEN 1 ELSE 0)

\* The loop of compile() on the sizes of the files: the bytes of the
\* positions array, two unsigned int per file.
RECURSIVE compileSizes(_, _, _)
compileSizes(sizes, i, st) ==
    IF i > Len(sizes) THEN st.positions
    ELSE LET filenamesLen == uintAdd(st.filenamesLen, sizes[i].name, 0)
             dataLen == uintAdd(st.dataLen, sizes[i].content, 0)
         IN  compileSizes(sizes, i + 1,
                [positions |-> st.positions \o filenamesLen \o dataLen,
                 filenamesLen |-> filenamesLen,
                 dataLen |-> dataLen])

\* The loop of registerData() on the positions array: the length of the
\* name and of the data of every entry, as the loop computes them.
RECURSIVE registerSizes(_, _, _, _, _)
registerSizes(count, positions, i, oldFilenamePosition, oldDataPosition) ==
    IF i = count THEN <<>>
    ELSE LET filenamePosition == Slice(positions.bytes, i * 2 * sizeofUInt, sizeofUInt)
             dataPosition == Slice(positions.bytes, i * 2 * sizeofUInt + sizeofUInt, sizeofUInt)
         IN  <<FileSize(uintSub(filenamePosition, oldFilenamePosition, 0),
                        uintSub(dataPosition, oldDataPosition, 0))>>
             \o registerSizes(count, positions, i + 1, filenamePosition, dataPosition)

(************************* domains of the inputs **************************)
Groups == {"G", "H"}
\* The Resource objects that may be alive at once; the specifications of one
\* object use the first only.
ViewIds == {1, 2}
OneView == {1}

NameA == <<97>>
NameB == <<98>>
Names == {NameA, NameB}

\* Contents of compiled-in files, and contents of files on disk.
Old == <<111>>
New == <<110>>
Newer == <<120>>
RegContents == {<<>>, Old}
DiskContents == {New, Newer}

\* File lists given to compile() by the generated resource files.
RegLists ==
    {<<>>} \cup {<<File(n, c)>> : n \in Names, c \in RegContents}
           \cup {<<File(NameA, Old), File(NameB, <<>>)>>}
OverrideLists ==
    {<<File(NameA, Old)>>, <<File(NameA, <<>>), File(NameB, Old)>>}
CodecNames == {<<97>>, <<97, 98>>, <<98>>}
CodecContents == {<<>>, <<0>>, <<255, 16>>}
CodecLists ==
    SeqsUpTo({File(n, c) : n \in CodecNames, c \in CodecContents}, MaxFiles)

\* Sizes of names and of contents: small ones, the largest an unsigned int
\* holds, and one that needs more bytes than an unsigned int has.
NameSizes == {<<1>>, <<2>>}
ContentSizes == {<<0>>, <<1>>, <<255, 255, 255, 255>>, <<5, 0, 0, 0, 1>>}
SizeLists ==
    SeqsUpTo({FileSize(n, c) : n \in NameSizes, c \in ContentSizes}, MaxFiles)

\* A list in which a name is repeated and another name follows.
DuplicateLists ==
    {<<File(<<97>>, <<0>>), File(<<97>>, <<255, 16>>), File(<<98>>, <<0>>)>>}

\* Configuration files: "" is no override, see Resource::Resource().
Paths == {"", "over.conf"}

\* [file] groups of an override configuration file.
Entry(filename, hasAlias, alias) ==
    [filename |-> filename, hasAlias |-> hasAlias, alias |-> alias]
Entries == {Entry(f, FALSE, <<>>) : f \in Names} \cup {Entry(NameB, TRUE, NameA)}

\* What Configuration(filename) holds: the value of "group" and the [file]
\* groups in file order.  A file that is missing or cannot be parsed gives a
\* configuration without values and groups.
Configuration(group, files) == [group |-> group, files |-> files]
EmptyConfiguration == Configuration("", <<>>)
Configurations ==
    {EmptyConfiguration}
    \cup {Configuration(g, fs) : g \in Groups, fs \in SeqsUpTo(Entries, MaxEntries)}

\* The resource configuration file given to compileFrom(): whether it exists,
\* whether it has a value "group", and its values and [file] groups.
ConfFile(exists, hasGroup, conf) == [exists |-> exists, hasGroup |-> hasGroup, conf |-> conf]
NoConfFile == ConfFile(FALSE, FALSE, EmptyConfiguration)

\* [file] groups of resource configuration files: a file, a file under an
\* alias, and groups with an empty filename or an empty alias.
CompileEntries ==
    {Entry(NameA, FALSE, <<>>), Entry(NameB, TRUE, NameA),
     Entry(<<>>, FALSE, <<>>), Entry(NameA, TRUE, <<>>)}
ConfFiles ==
    {NoConfFile}
    \cup {ConfFile(TRUE, FALSE, Configuration("", fs)) :
            fs \in SeqsUpTo(CompileEntries, MaxEntries)}
    \cup {ConfFile(TRUE, TRUE, Configuration(g, fs)) :
            g \in {"", "G"}, fs \in SeqsUpTo(CompileEntries, MaxEntries)}

\* The lists compileFrom() passes to compile(): aliases and file contents.
FromLists ==
    SeqsUpTo({File(n, c) : n \in Names, c \in DiskContents}, MaxEntries)

\* The override file before and after an edit, and the disk beside it.
ViewConfigurations ==
    {Configuration("G", <<Entry(NameA, FALSE, <<>>)>>),
     Configuration("G", <<Entry(NameB, TRUE, NameA)>>)}

(************************* Resource objects *******************************)
NoData == [n \in {} |-> <<>>]

\* OverrideData: conf and the data loaded so far; active is _overrideGroup != nullptr.
NoOverride == [active |-> FALSE, conf |-> EmptyConfiguration, data |-> NoData]
OverrideData(conf) == [active |-> TRUE, conf |-> conf, data |-> NoData]

\* A Resource object: _group (the group its iterator points to; dangling once
\* the group was unregistered) and _overrideGroup.
NoView == [live |-> FALSE, group |-> "", dangling |-> FALSE, override |-> NoOverride]
View(group, override) ==
    [live |-> TRUE, group |-> group, dangling |-> FALSE, override |-> override]

(************************* return values **********************************)
\* Containers::ArrayReference returned by getRaw().
Ref(bytes) == [null |-> FALSE, bytes |-> bytes]

\* The record of a call: op and its arguments, how it ended ("ok", "assert"
\* for a failed CORRADE_ASSERT, "undefined" for a call on a dangling _group),
\* what it returned, whether it printed a warning, and the file it loaded.
NoLoad == [called |-> FALSE, filename |-> <<>>, success |-> FALSE]
Load(filename, success) == [called |-> TRUE, filename |-> filename, success |-> success]

\* What a failed CORRADE_ASSERT of getRaw() prints: the file and the group.
NoMessage == [file |-> <<>>, group |-> ""]
Message(file, group) == [file |-> file, group |-> group]

\* The arguments of registerData() after the group.
Args(count, positions, filenames, data) ==
    [count |-> count, positions |-> positions, filenames |-> filenames, data |-> data]
NoArgs == Args(0, nullptr, nullptr, nullptr)

\* What compileFrom() returns: the empty string, or the source file that
\* registers `group` with the arguments args.
NoOutput == [empty |-> TRUE, group |-> "", args |-> NoArgs]
Output(group, args) == [empty |-> FALSE, group |-> group, args |-> args]

\* present: the group was registered when the call was made; cached: the
\* name was in the data of the override when getRaw() was called; sizes and
\* lengths: the sizes of the files compiled, and the lengths registerData()
\* computed from the positions array.
Call(op, group, view, name) ==
    [op |-> op, group |-> group, view |-> view, name |-> name,
     status |-> "ok", ret |-> nullptr, text |-> <<>>, message |-> NoMessage,
     files |-> <<>>, args |-> NoArgs, path |-> "",
     sizes |-> <<>>, lengths |-> <<>>,
     conf |-> NoConfFile, artifact |-> NoOutput,
     present |-> FALSE, cached |-> FALSE, warned |-> FALSE,
     load |-> NoLoad, disk |-> <<>>]

(************************* state machine **********************************)
Init ==
    /\ resources = [g \in {} |-> GroupData("", NoResources)]
    /\ views = [v \in ViewIds |-> NoView]
    /\ last = Call("none", "", 0, <<>>)

\* The resource files of the process: what compile() wrote for each list.
Compiled ==
    [files \in RegLists \cup OverrideLists \cup CodecLists \cup DuplicateLists \cup FromLists |->
        compile(files)]

\* The initializer of a resource file compiled from `files` runs.
RegisterCompiled(group, files) ==
    LET out == Compiled[files]
    IN  /\ out.valid
        /\ resources' = registerData(resources, group, out.count,
                                     out.positions, out.filenames, out.data)
        /\ last' = [Call("registerData", group, 0, <<>>) EXCEPT
                        !.files = files,
                        !.args = Args(out.count, out.positions, out.filenames, out.data),
                        !.present = (group \in DOMAIN resources)]
        /\ UNCHANGED views

\* registerData(group, 0, positions, filenames, data) with any buffers.
RegisterEmpty(group, positions, filenames, data) ==
    /\ resources' = registerData(resources, group, 0, positions, filenames, data)
    /\ last' = [Call("registerData", group, 0, <<>>) EXCEPT
                    !.args = Args(0, positions, filenames, data),
                    !.present = (group \in DOMAIN resources)]
    /\ UNCHANGED views

\* compile() of files of the given sizes: the count and the positions array
\* its output passes to registerData().
CompileSizes(sizes) ==
    /\ last' = [Call("compile", "", 0, <<>>) EXCEPT
                    !.sizes = sizes,
                    !.args = Args(Len(sizes),
                                  IF Len(sizes) = 0 THEN nullptr
                                  ELSE Pointer(compileSizes(sizes, 1,
                                          [positions |-> <<>>,
                                           filenamesLen |-> numberToString(0),
                                           dataLen |-> numberToString(0)])),
                                  nullptr, nullptr)]
    /\ UNCHANGED <<resources, views>>

\* The initializer of the file compiled last runs: the lengths of the
\* entries as registerData() reads them from the positions array.
RegisterSizes ==
    /\ last.op = "compile"
    /\ last' = [Call("registerData", "", 0, <<>>) EXCEPT
                    !.sizes = last.sizes,
                    !.args = last.args,
                    !.lengths = registerSizes(last.args.count, last.args.positions, 0,
                                              numberToString(0), numberToString(0))]
    /\ UNCHANGED <<resources, views>>

\* unregisterData(): erasing the group invalidates the _group iterator of
\* every Resource bound to it.
\* Mutant: the whole map is cleared.
unregisterDataAll(reg, group) == [g \in {} |-> reg[g]]

\* Mutant: the resources of the group are dropped, the group stays.
unregisterDataResourcesOnly(reg, group) == [reg EXCEPT ![group].resources = NoResources]

unregisterData(reg, group) == [g \in DOMAIN reg \ {group} |-> reg[g]]

UnregisterData(group) ==
    IF group \notin DOMAIN resources
    THEN /\ last' = [Call("unregisterData", group, 0, <<>>) EXCEPT !.status = "assert"]
         /\ UNCHANGED <<resources, views>>
    ELSE /\ resources' = unregisterData(resources, group)
         /\ views' = [v \in ViewIds |->
                        IF views[v].live /\ views[v].group = group
                        THEN [views[v] EXCEPT !.dangling = TRUE] ELSE views[v]]
         /\ last' = [Call("unregisterData", group, 0, <<>>) EXCEPT !.present = TRUE]

\* Mutant: the group's data is replaced by an empty one with the file set.
overrideGroupReset(reg, group, configurationFile) ==
    [reg EXCEPT ![group] = GroupData(configurationFile, NoResources)]

overrideGroup(reg, group, configurationFile) ==
    [reg EXCEPT ![group].overrideGroup = configurationFile]

OverrideGroup(group, configurationFile) ==
    IF group \notin DOMAIN resources
    THEN /\ last' = [Call("overrideGroup", group, 0, <<>>) EXCEPT
                        !.status = "assert", !.path = configurationFile]
         /\ UNCHANGED <<resources, views>>
    ELSE /\ resources' = overrideGroup(resources, group, configurationFile)
         /\ last' = [Call("overrideGroup", group, 0, <<>>) EXCEPT
                        !.present = TRUE, !.path = configurationFile]
         /\ UNCHANGED views

\* Mutant: no object is constructed when the override file gives no
\* configuration.
newResourceNeedsManifest(reg, group, conf) ==
    IF reg[group].overrideGroup # "" /\ conf = EmptyConfiguration
    THEN NoView
    ELSE View(group, IF reg[group].overrideGroup # "" THEN OverrideData(conf) ELSE NoOverride)

\* Resource::Resource(group); conf is what Configuration() reads from the
\* override file at this moment.
newResource(reg, group, conf) ==
    View(group, IF reg[group].overrideGroup # "" THEN OverrideData(conf) ELSE NoOverride)

Construct(v, group, conf) ==
    /\ ~views[v].live
    /\ IF group \notin DOMAIN resources
       THEN /\ last' = [Call("Resource", group, v, <<>>) EXCEPT !.status = "assert"]
            /\ UNCHANGED <<resources, views>>
       ELSE /\ views' = [views EXCEPT ![v] = newResource(resources, group, conf)]
            /\ last' = [Call("Resource", group, v, <<>>) EXCEPT
                            !.present = TRUE,
                            !.warned = /\ resources[group].overrideGroup # ""
                                       /\ conf.group # group]
            /\ UNCHANGED resources

\* Resource::~Resource().
Destroy(v) ==
    /\ views[v].live
    /\ views' = [views EXCEPT ![v] = NoView]
    /\ last' = Call("~Resource", views[v].group, v, <<>>)
    /\ UNCHANGED resources

(************************* the file system ********************************)
\* What Directory::fileExists() and Directory::read() give for the files
\* beside the override configuration file, at the moment of a call.
NoFile == [exists |-> FALSE, bytes |-> <<>>]
DiskFile(bytes) == [exists |-> TRUE, bytes |-> bytes]
Disks == [Names -> {NoFile} \cup {DiskFile(c) : c \in DiskContents}]

\* Resource::fileContents().
fileContents(disk, filename) ==
    IF ~disk[filename].exists
    THEN [success |-> FALSE, data |-> <<>>]
    ELSE [success |-> TRUE, data |-> disk[filename].bytes]

ViewDisks ==
    {[f \in Names |-> IF f = NameA THEN DiskFile(New) ELSE DiskFile(Newer)],
     [f \in Names |-> IF f = NameA THEN NoFile ELSE DiskFile(Newer)]}

\* The disk beside a resource configuration file.
CompileDisks == {disk \in Disks : disk[NameB] = DiskFile(Newer)}

(************************* Resource::compileFrom **************************)
\* The loop of compileFrom() over the [file] groups: the files read so far,
\* or the failure at the first group that is incomplete or cannot be read.
RECURSIVE compileFromLoop(_, _, _, _)
compileFromLoop(files, i, disk, fileData) ==
    IF i > Len(files) THEN [success |-> TRUE, fileData |-> fileData]
    ELSE LET filename == files[i].filename
             alias == IF files[i].hasAlias THEN files[i].alias ELSE filename
         IN  IF filename = <<>> \/ alias = <<>>
             THEN [success |-> FALSE, fileData |-> <<>>]
             ELSE IF ~fileContents(disk, filename).success
             THEN [success |-> FALSE, fileData |-> <<>>]
             ELSE compileFromLoop(files, i + 1, disk,
                     Append(fileData, File(alias, fileContents(disk, filename).data)))

compileFrom(configurationFile, disk) ==
    IF ~configurationFile.exists THEN NoOutput
    ELSE IF ~configurationFile.hasGroup THEN NoOutput
    ELSE LET loaded == compileFromLoop(configurationFile.conf.files, 1, disk, <<>>)
             out == Compiled[loaded.fileData]
         IN  IF ~loaded.success THEN NoOutput
             ELSE Output(configurationFile.conf.group,
                         Args(out.count, out.positions, out.filenames, out.data))

CompileFrom(configurationFile, disk) ==
    /\ last' = [Call("compileFrom", "", 0, <<>>) EXCEPT
                    !.conf = configurationFile,
                    !.disk = disk,
                    !.artifact = compileFrom(configurationFile, disk)]
    /\ UNCHANGED <<resources, views>>

(************************* Resource::list *********************************)
\* operator< of std::string on byte strings.
RECURSIVE stringLess(_, _)
stringLess(a, b) ==
    IF Len(b) = 0 THEN FALSE
    ELSE IF Len(a) = 0 THEN TRUE
    ELSE IF a[1] # b[1] THEN a[1] < b[1]
    ELSE stringLess(Tail(a), Tail(b))

\* The keys of a std::map in iteration order.
RECURSIVE keysInOrder(_)
keysInOrder(keys) ==
    IF keys = {} THEN <<>>
    ELSE LET first == CHOOSE k \in keys : \A o \in keys \ {k} : stringLess(k, o)
         IN  <<first>> \o keysInOrder(keys \ {first})

\* Mutant: the loop stops one entry early.
listButLast(groupData) ==
    LET all == keysInOrder(DOMAIN groupData.resources)
    IN  SubSeq(all, 1, Len(all) - 1)

list(groupData) == keysInOrder(DOMAIN groupData.resources)

(************************* Resource::getRaw *******************************)
\* The name a [file] group is looked up by.
entryName(file) == IF file.hasAlias THEN file.alias ELSE file.filename

\* Mutant: the last [file] group named filename is taken.
lastMatch(files, filename) ==
    IF \E k \in 1..Len(files) : entryName(files[k]) = filename
    THEN CHOOSE k \in 1..Len(files) :
            /\ entryName(files[k]) = filename
            /\ \A j \in (k + 1)..Len(files) : entryName(files[j]) # filename
    ELSE 0

\* Index of the first [file] group named filename, 0 when there is none.
firstMatch(files, filename) ==
    IF \E k \in 1..Len(files) : entryName(files[k]) = filename
    THEN CHOOSE k \in 1..Len(files) :
            /\ entryName(files[k]) = filename
            /\ \A j \in 1..(k - 1) : entryName(files[j]) # filename
    ELSE 0

\* Mutant: a file that is not in the group is an empty view, not an assertion.
getCompiledNoAssert(reg, group, filename) ==
    IF filename \notin DOMAIN reg[group].resources
    THEN [status |-> "ok", ret |-> nullptr, message |-> NoMessage]
    ELSE [status |-> "ok", ret |-> reg[group].resources[filename], message |-> NoMessage]

\* The compiled-in part of getRaw(): the lookup in the group's resources.
getCompiled(reg, group, filename) ==
    IF filename \notin DOMAIN reg[group].resources
    THEN [status |-> "assert", ret |-> nullptr, message |-> Message(filename, group)]
    ELSE [status |-> "ok", ret |-> reg[group].resources[filename], message |-> NoMessage]

\* Mutant: the compiled-in resources are consulted before the override.
getRawCompiledFirst(reg, view, filename, disk) ==
    LET override == view.override
        compiled == getCompiled(reg, view.group, filename)
        k == firstMatch(override.conf.files, filename)
        loaded == fileContents(disk, override.conf.files[k].filename)
    IN  IF ~override.active \/ compiled.status = "ok"
        THEN [status |-> compiled.status, ret |-> compiled.ret,
              message |-> compiled.message,
              data |-> override.data, warned |-> FALSE, load |-> NoLoad]
        ELSE IF filename \in DOMAIN override.data
        THEN [status |-> "ok", ret |-> Ref(override.data[filename]),
              message |-> NoMessage,
              data |-> override.data, warned |-> FALSE, load |-> NoLoad]
        ELSE IF k = 0
        THEN [status |-> compiled.status, ret |-> compiled.ret,
              message |-> compiled.message,
              data |-> override.data, warned |-> TRUE, load |-> NoLoad]
        ELSE IF ~loaded.success
        THEN [status |-> "ok", ret |-> nullptr, message |-> NoMessage,
              data |-> override.data, warned |-> FALSE,
              load |-> Load(override.conf.files[k].filename, FALSE)]
        ELSE [status |-> "ok", ret |-> Ref(loaded.data), message |-> NoMessage,
              data |-> emplace(override.data, filename, loaded.data),
              warned |-> FALSE,
              load |-> Load(override.conf.files[k].filename, TRUE)]

\* Mutant: a file that cannot be loaded falls back to the compiled-in one.
getRawFallbackOnLoadFailure(reg, view, filename, disk) ==
    LET override == view.override
        compiled == getCompiled(reg, view.group, filename)
        k == firstMatch(override.conf.files, filename)
        loaded == fileContents(disk, override.conf.files[k].filename)
    IN  IF ~override.active
        THEN [status |-> compiled.status, ret |-> compiled.ret,
              message |-> compiled.message,
              data |-> override.data, warned |-> FALSE, load |-> NoLoad]
        ELSE IF filename \in DOMAIN override.data
        THEN [status |-> "ok", ret |-> Ref(override.data[filename]),
              message |-> NoMessage,
              data |-> override.data, warned |-> FALSE, load |-> NoLoad]
        ELSE IF k = 0
        THEN [status |-> compiled.status, ret |-> compiled.ret,
              message |-> compiled.message,
              data |-> override.data, warned |-> TRUE, load |-> NoLoad]
        ELSE IF ~loaded.success
        THEN [status |-> compiled.status, ret |-> compiled.ret,
              message |-> compiled.message, data |-> override.data,
              warned |-> TRUE,
              load |-> Load(override.conf.files[k].filename, FALSE)]
        ELSE [status |-> "ok", ret |-> Ref(loaded.data), message |-> NoMessage,
              data |-> emplace(override.data, filename, loaded.data),
              warned |-> FALSE,
              load |-> Load(override.conf.files[k].filename, TRUE)]

\* Mutant: a name the override does not declare is a failed load.
getRawNoFallback(reg, view, filename, disk) ==
    LET override == view.override
        compiled == getCompiled(reg, view.group, filename)
        k == firstMatch(override.conf.files, filename)
        loaded == fileContents(disk, override.conf.files[k].filename)
    IN  IF ~override.active
        THEN [status |-> compiled.status, ret |-> compiled.ret,
              message |-> compiled.message,
              data |-> override.data, warned |-> FALSE, load |-> NoLoad]
        ELSE IF filename \in DOMAIN override.data
        THEN [status |-> "ok", ret |-> Ref(override.data[filename]),
              message |-> NoMessage,
              data |-> override.data, warned |-> FALSE, load |-> NoLoad]
        ELSE IF k = 0 \/ ~loaded.success
        THEN [status |-> "ok", ret |-> nullptr, message |-> NoMessage,
              data |-> override.data, warned |-> FALSE, load |-> NoLoad]
        ELSE [status |-> "ok", ret |-> Ref(loaded.data), message |-> NoMessage,
              data |-> emplace(override.data, filename, loaded.data),
              warned |-> FALSE,
              load |-> Load(override.conf.files[k].filename, TRUE)]

\* Mutant: a name that is not in the group fails the assertion before the
\* override is consulted.
getRawRegisteredNames(reg, view, filename, disk) ==
    LET override == view.override
        compiled == getCompiled(reg, view.group, filename)
        k == firstMatch(override.conf.files, filename)
        loaded == fileContents(disk, override.conf.files[k].filename)
    IN  IF ~override.active \/ compiled.status = "assert"
        THEN [status |-> compiled.status, ret |-> compiled.ret,
              message |-> compiled.message,
              data |-> override.data, warned |-> FALSE, load |-> NoLoad]
        ELSE IF filename \in DOMAIN override.data
        THEN [status |-> "ok", ret |-> Ref(override.data[filename]),
              message |-> NoMessage,
              data |-> override.data, warned |-> FALSE, load |-> NoLoad]
        ELSE IF k = 0
        THEN [status |-> compiled.status, ret |-> compiled.ret,
              message |-> compiled.message,
              data |-> override.data, warned |-> TRUE, load |-> NoLoad]
        ELSE IF ~loaded.success
        THEN [status |-> "ok", ret |-> nullptr, message |-> NoMessage,
              data |-> override.data, warned |-> FALSE,
              load |-> Load(override.conf.files[k].filename, FALSE)]
        ELSE [status |-> "ok", ret |-> Ref(loaded.data), message |-> NoMessage,
              data |-> emplace(override.data, filename, loaded.data),
              warned |-> FALSE,
              load |-> Load(override.conf.files[k].filename, TRUE)]

\* Mutant: the data loaded before is not consulted, the file is loaded anew.
getRawReload(reg, view, filename, disk) ==
    LET override == view.override
        compiled == getCompiled(reg, view.group, filename)
        k == firstMatch(override.conf.files, filename)
        loaded == fileContents(disk, override.conf.files[k].filename)
    IN  IF ~override.active
        THEN [status |-> compiled.status, ret |-> compiled.ret,
              message |-> compiled.message,
              data |-> override.data, warned |-> FALSE, load |-> NoLoad]
        ELSE IF k = 0
        THEN [status |-> compiled.status, ret |-> compiled.ret,
              message |-> compiled.message,
              data |-> override.data, warned |-> TRUE, load |-> NoLoad]
        ELSE IF ~loaded.success
        THEN [status |-> "ok", ret |-> nullptr, message |-> NoMessage,
              data |-> override.data, warned |-> FALSE,
              load |-> Load(override.conf.files[k].filename, FALSE)]
        ELSE [status |-> "ok", ret |-> Ref(loaded.data), message |-> NoMessage,
              data |-> [n \in DOMAIN override.data \cup {filename} |->
                            IF n = filename THEN loaded.data ELSE override.data[n]],
              warned |-> FALSE,
              load |-> Load(override.conf.files[k].filename, TRUE)]

\* getRaw() on a Resource whose _group is valid: the status, the returned
\* view, the data of the override after the call, whether the fallback
\* warning was printed and the file loaded.
getRaw(reg, view, filename, disk) ==
    LET override == view.override
        compiled == getCompiled(reg, view.group, filename)
        k == firstMatch(override.conf.files, filename)
        loaded == fileContents(disk, override.conf.files[k].filename)
    IN  IF ~override.active
        THEN [status |-> compiled.status, ret |-> compiled.ret,
              message |-> compiled.message,
              data |-> override.data, warned |-> FALSE, load |-> NoLoad]
        ELSE IF filename \in DOMAIN override.data
        THEN [status |-> "ok", ret |-> Ref(override.data[filename]),
              message |-> NoMessage,
              data |-> override.data, warned |-> FALSE, load |-> NoLoad]
        ELSE IF k = 0
        THEN [status |-> compiled.status, ret |-> compiled.ret,
              message |-> compiled.message,
              data |-> override.data, warned |-> TRUE, load |-> NoLoad]
        ELSE IF ~loaded.success
        THEN [status |-> "ok", ret |-> nullptr, message |-> NoMessage,
              data |-> override.data, warned |-> FALSE,
              load |-> Load(override.conf.files[k].filename, FALSE)]
        ELSE [status |-> "ok", ret |-> Ref(loaded.data), message |-> NoMessage,
              data |-> emplace(override.data, filename, loaded.data),
              warned |-> FALSE,
              load |-> Load(override.conf.files[k].filename, TRUE)]

\* What a call through a dangling _group iterator may return.
UndefinedRefs == {nullptr} \cup {Ref(c) : c \in RegContents \cup DiskContents}

List(v) ==
    /\ views[v].live
    /\ IF views[v].dangling
       THEN \E ns \in SUBSET Names :
               last' = [Call("list", views[v].group, v, <<>>) EXCEPT
                            !.status = "undefined", !.text = keysInOrder(ns)]
       ELSE last' = [Call("list", views[v].group, v, <<>>) EXCEPT
                        !.present = TRUE,
                        !.text = list(resources[views[v].group])]
    /\ UNCHANGED <<resources, views>>

\* Mutant: what one Resource loads is stored in every Resource that has an
\* override.
GetRawSharedData(v, filename, disk) ==
    /\ views[v].live
    /\ IF views[v].dangling
       THEN /\ \E r \in UndefinedRefs :
                  last' = [Call("getRaw", views[v].group, v, filename) EXCEPT
                               !.status = "undefined", !.ret = r]
            /\ UNCHANGED <<resources, views>>
       ELSE LET out == getRaw(resources, views[v], filename, disk)
            IN  /\ views' = [w \in ViewIds |->
                                IF views[w].override.active
                                THEN [views[w] EXCEPT !.override.data = out.data]
                                ELSE views[w]]
                /\ last' = [Call("getRaw", views[v].group, v, filename) EXCEPT
                                !.status = out.status, !.ret = out.ret,
                                !.message = out.message,
                                !.present = TRUE,
                                !.cached = (filename \in DOMAIN views[v].override.data),
                                !.warned = out.warned, !.load = out.load,
                                !.disk = disk]
                /\ UNCHANGED resources

GetRaw(v, filename, disk) ==
    /\ views[v].live
    /\ IF views[v].dangling
       THEN /\ \E r \in UndefinedRefs :
                  last' = [Call("getRaw", views[v].group, v, filename) EXCEPT
                               !.status = "undefined", !.ret = r]
            /\ UNCHANGED <<resources, views>>
       ELSE LET out == getRaw(resources, views[v], filename, disk)
            IN  /\ views' = [views EXCEPT ![v].override.data = out.data]
                /\ last' = [Call("getRaw", views[v].group, v, filename) EXCEPT
                                !.status = out.status, !.ret = out.ret,
                                !.message = out.message,
                                !.present = TRUE,
                                !.cached = (filename \in DOMAIN views[v].override.data),
                                !.warned = out.warned, !.load = out.load,
                                !.disk = disk]
                /\ UNCHANGED resources

(************************* Resource::get **********************************)
\* Mutant: the string is one character shorter than the view.
getButLast(raw) == IF ~raw.null THEN SubSeq(raw.bytes, 1, Len(raw.bytes) - 1) ELSE <<>>

\* get(): the bytes of getRaw() as a std::string, empty for a null view.
get(raw) == IF ~raw.null THEN raw.bytes ELSE <<>>

Get(v, filename, disk) ==
    /\ views[v].live
    /\ IF views[v].dangling
       THEN /\ \E r \in UndefinedRefs :
                  last' = [Call("get", views[v].group, v, filename) EXCEPT
                               !.status = "undefined", !.ret = r, !.text = get(r)]
            /\ UNCHANGED <<resources, views>>
       ELSE LET out == getRaw(resources, views[v], filename, disk)
            IN  /\ views' = [views EXCEPT ![v].override.data = out.data]
                /\ last' = [Call("get", views[v].group, v, filename) EXCEPT
                                !.status = out.status, !.ret = out.ret,
                                !.message = out.message,
                                !.present = TRUE,
                                !.cached = (filename \in DOMAIN views[v].override.data),
                                !.text = get(out.ret),
                                !.warned = out.warned, !.load = out.load,
                                !.disk = disk]
                /\ UNCHANGED resources

(************************* specifications *********************************)
\* The registry: two groups registered, unregistered and overridden, and
\* Resource objects constructed on them.
Next ==
    \/ \E g \in Groups, files \in RegLists : RegisterCompiled(g, files)
    \/ \E g \in Groups, p \in {nullptr, Pointer(Old)} : RegisterEmpty(g, p, p, p)
    \/ \E g \in Groups : UnregisterData(g)
    \/ \E g \in Groups, p \in Paths : OverrideGroup(g, p)
    \/ \E v \in OneView, g \in Groups,
          conf \in {EmptyConfiguration, Configuration("G", <<Entry(NameA, FALSE, <<>>)>>)} :
            Construct(v, g, conf)
    \/ \E v \in OneView : Destroy(v)
    \/ \E v \in OneView : List(v)
    \/ \E v \in OneView, n \in Names, disk \in {[f \in Names |-> NoFile]} : Get(v, n, disk)

Spec == Init /\ [][Next]_vars

\* Lookups through a Resource of group "G", with every override
\* configuration of up to MaxEntries files and every state of the disk.
OverrideNext ==
    \/ \E files \in OverrideLists : RegisterCompiled("G", files)
    \/ UnregisterData("G")
    \/ \E p \in Paths : OverrideGroup("G", p)
    \/ \E v \in OneView, g \in Groups, conf \in Configurations : Construct(v, g, conf)
    \/ \E v \in OneView : Destroy(v)
    \/ \E v \in OneView : List(v)
    \/ \E v \in OneView, n \in Names, disk \in Disks : GetRaw(v, n, disk)

OverrideSpec == Init /\ [][OverrideNext]_vars

\* The codec: every list of up to MaxFiles files, and one longer list with
\* a repeated name, is compiled, registered as group "G" and read back
\* through a Resource without override.
CodecNext ==
    \/ \E files \in CodecLists \cup DuplicateLists :
          "G" \notin DOMAIN resources /\ RegisterCompiled("G", files)
    \/ "G" \in DOMAIN resources /\ UnregisterData("G")
    \/ \E v \in OneView : "G" \in DOMAIN resources /\ Construct(v, "G", EmptyConfiguration)
    \/ \E v \in OneView : Destroy(v)
    \/ \E v \in OneView : List(v)
    \/ \E v \in OneView, n \in CodecNames : GetRaw(v, n, [f \in Names |-> NoFile])

CodecSpec == Init /\ [][CodecNext]_vars

\* The counters: lists of up to MaxFiles files given by their sizes, up to
\* sizes an unsigned int cannot hold, are compiled and registered.
CounterNext ==
    \/ \E sizes \in SizeLists : CompileSizes(sizes)
    \/ RegisterSizes

CounterSpec == Init /\ [][CounterNext]_vars

\* Two Resource objects of group "G", constructed before and after the
\* override file is set, cleared or edited.
ViewsNext ==
    \/ RegisterCompiled("G", <<File(NameA, Old)>>)
    \/ \E p \in Paths : OverrideGroup("G", p)
    \/ \E v \in ViewIds, conf \in ViewConfigurations : Construct(v, "G", conf)
    \/ \E v \in ViewIds : Destroy(v)
    \/ \E v \in ViewIds, n \in Names, disk \in ViewDisks : GetRaw(v, n, disk)

ViewsSpec == Init /\ [][ViewsNext]_vars

\* The resource compiler: compileFrom() on every resource configuration
\* file of up to MaxEntries [file] groups, with the first file on disk or not.
CompileNext ==
    \E configurationFile \in ConfFiles, disk \in CompileDisks :
        CompileFrom(configurationFile, disk)

CompileSpec == Init /\ [][CompileNext]_vars

(************************* properties **************************************)
\* The Resource the last call was made on, its group's compiled-in resources
\* and the [file] groups of its override configuration.
LastView == views[last.view]
LastManifest == resources[last.group].resources
LastFiles == LastView.override.conf.files

\* The positions of the [file] groups of `files` that are looked up by `name`.
Declaring(files, name) ==
    {k \in 1..Len(files) :
        name = (IF files[k].hasAlias THEN files[k].alias ELSE files[k].filename)}

\* The file of the first [file] group looked up by `name` (there is one).
DeclaredFile(files, name) ==
    files[CHOOSE k \in Declaring(files, name) :
            \A j \in Declaring(files, name) : k <= j].filename

\* getRaw() was called on a Resource whose group is registered.
RawCall == last.op = "getRaw" /\ last.status # "undefined"

\* registerData() registered a group from the arrays compile() wrote.
Decoded == last.op = "registerData" /\ ~last.present /\ Len(last.files) > 0

DistinctNames(files) ==
    \A i, j \in 1..Len(files) : i # j => files[i].name # files[j].name

\* The resources m hold the files, name by name, and nothing else.
Reproduces(m, files) ==
    /\ \A i \in 1..Len(files) :
          /\ files[i].name \in DOMAIN m
          /\ m[files[i].name].bytes = files[i].content
    /\ Cardinality(DOMAIN m) = Len(files)

Declared ==
    /\ RawCall
    /\ LastView.override.active
    /\ ~last.cached
    /\ Declaring(LastFiles, last.name) # {}

\* C2: when the group holds a compiled-in file `name`, the Resource was
\* constructed with an override whose configuration declares `name` and the
\* declared file can be read, getRaw(name) returns the bytes of the file on
\* disk and not the compiled-in bytes.
C2_OverrideShadows ==
    (/\ Declared
     /\ last.name \in DOMAIN LastManifest
     /\ last.disk[DeclaredFile(LastFiles, last.name)].exists)
    => /\ last.status = "ok"
       /\ last.ret = Ref(last.disk[DeclaredFile(LastFiles, last.name)].bytes)
       /\ last.ret # LastManifest[last.name]

C2_Witness ==
    /\ Declared
    /\ LastManifest[last.name] = Pointer(Old)
    /\ last.ret = Ref(New)
    /\ last.disk[DeclaredFile(LastFiles, last.name)] = DiskFile(New)

\* C3: when the override configuration declares `name` and the declared file
\* cannot be loaded, getRaw(name) has tried to load that file and returns the
\* null view whatever the group holds under `name`; nothing is stored in the
\* data of the override, and every getRaw() of a declared name that is not
\* stored goes to the file loader.
C3_LoadFailurePropagates ==
    /\ Declared => last.load.called
    /\ (Declared /\ ~last.disk[DeclaredFile(LastFiles, last.name)].exists)
       => /\ last.ret = nullptr
          /\ last.load = Load(DeclaredFile(LastFiles, last.name), FALSE)
          /\ ~last.warned
          /\ last.name \notin DOMAIN LastView.override.data

C3_Witness ==
    /\ Declared
    /\ ~last.disk[DeclaredFile(LastFiles, last.name)].exists
    /\ last.name \in DOMAIN LastManifest
    /\ LastManifest[last.name] = Pointer(Old)
    /\ last.ret = nullptr
    /\ DOMAIN LastView.override.data # {}

\* The call that the step makes is getRaw(name) on a Resource of a registered
\* group, for a name that no [file] group of its override declares.
SoftMissStep ==
    /\ last'.op = "getRaw"
    /\ last'.status # "undefined"
    /\ views[last'.view].override.active
    /\ Declaring(views[last'.view].override.conf.files, last'.name) = {}

\* C4: with an override active and no [file] group declaring `name`,
\* getRaw(name) returns the view registered for `name` in the group, as it
\* does without override, and changes neither the data of the override nor
\* the registry.
C4_SoftMissFallsBack ==
    [][(SoftMissStep /\ last'.name \in DOMAIN resources[last'.group].resources)
       => /\ last'.status = "ok"
          /\ last'.ret = resources[last'.group].resources[last'.name]
          /\ last'.warned
          /\ ~last'.load.called
          /\ views' = views
          /\ resources' = resources]_vars

C4_Witness ==
    /\ RawCall
    /\ LastView.override.active
    /\ Len(LastFiles) > 0
    /\ Declaring(LastFiles, last.name) = {}
    /\ DOMAIN LastView.override.data # {}
    /\ last.ret = Pointer(Old)

\* C5: registerData() of a group that is registered changes nothing: the
\* resources and the override file of every group are what they were, and
\* so is list() of every group, whatever files the call carries.
C5_RegisterTwiceIsNoOp ==
    [][(last'.op = "registerData" /\ last'.group \in DOMAIN resources)
       => /\ resources' = resources
          /\ views' = views
          /\ \A g \in DOMAIN resources : list(resources'[g]) = list(resources[g])]_vars

C5_Witness ==
    /\ last.op = "registerData"
    /\ last.present
    /\ resources[last.group].overrideGroup # ""
    /\ Len(last.files) > 0
    /\ ~Reproduces(LastManifest, last.files)
    /\ DOMAIN LastManifest # {}

\* C6: getRaw(name) for a name that is not in the group and that the override,
\* if there is one, neither holds nor declares, fails the assertion whose
\* message names the file and the group; it returns no view and changes
\* neither the registry nor the data of the override.
C6_NotFoundAsserts ==
    [][(/\ last'.op = "getRaw"
        /\ last'.status # "undefined"
        /\ last'.name \notin DOMAIN resources[last'.group].resources
        /\ \/ ~views[last'.view].override.active
           \/ /\ last'.name \notin DOMAIN views[last'.view].override.data
              /\ Declaring(views[last'.view].override.conf.files, last'.name) = {})
       => /\ last'.status = "assert"
          /\ last'.message = Message(last'.name, last'.group)
          /\ last'.ret = nullptr
          /\ views' = views
          /\ resources' = resources]_vars

C6_Witness ==
    /\ last.op = "getRaw"
    /\ last.status = "assert"
    /\ LastView.override.active
    /\ Len(LastFiles) > 0
    /\ DOMAIN LastManifest # {}

\* C7: unregisterData() of a group that is not registered fails its assertion
\* and changes nothing; of a registered group it erases that group and no
\* other; and Resource(group) fails its assertion while the group is not
\* registered and constructs the object when it is.
C7_Unregister ==
    [][/\ (last'.op = "unregisterData" /\ last'.group \notin DOMAIN resources)
          => /\ last'.status = "assert"
             /\ resources' = resources
             /\ views' = views
       /\ (last'.op = "unregisterData" /\ last'.group \in DOMAIN resources)
          => /\ last'.status = "ok"
             /\ DOMAIN resources' = DOMAIN resources \ {last'.group}
             /\ \A g \in DOMAIN resources' : resources'[g] = resources[g]
       /\ (last'.op = "Resource" /\ last'.group \notin DOMAIN resources)
          => /\ last'.status = "assert"
             /\ views' = views
       /\ (last'.op = "Resource" /\ last'.group \in DOMAIN resources)
          => /\ last'.status = "ok"
             /\ views'[last'.view].live
             /\ views'[last'.view].group = last'.group]_vars

C7_Witness ==
    /\ last.op = "unregisterData"
    /\ last.present
    /\ last.group \notin DOMAIN resources
    /\ DOMAIN resources # {}
    /\ \E v \in ViewIds : views[v].live /\ views[v].group = last.group

\* C8: list() returns the names of the group's compiled-in resources, each
\* once, whether or not the Resource has an override and whatever the
\* override declares or has loaded.
C8_ListIsCompiledNames ==
    (last.op = "list" /\ last.status = "ok")
    => /\ {last.text[i] : i \in 1..Len(last.text)} = DOMAIN LastManifest
       /\ Len(last.text) = Cardinality(DOMAIN LastManifest)

C8_Witness ==
    /\ last.op = "list"
    /\ last.status = "ok"
    /\ LastView.override.active
    /\ DOMAIN LastManifest # {}
    /\ \E n \in DOMAIN LastView.override.data : n \notin DOMAIN LastManifest

\* C9: overrideGroup() of a group that is not registered fails its assertion
\* and changes nothing; of a registered group it stores the file name in
\* that group and changes nothing else: no resources, no other group, no
\* Resource object, and no file is loaded.  A Resource has an override
\* exactly when its group had a file name stored at its construction.
C9_OverrideGroupOnlyRecords ==
    [][/\ last'.op = "overrideGroup"
          => /\ views' = views
             /\ ~last'.load.called
             /\ DOMAIN resources' = DOMAIN resources
             /\ \A g \in DOMAIN resources :
                   /\ resources'[g].resources = resources[g].resources
                   /\ resources'[g].overrideGroup =
                        (IF g = last'.group THEN last'.path
                         ELSE resources[g].overrideGroup)
             /\ last'.status =
                  (IF last'.group \in DOMAIN resources THEN "ok" ELSE "assert")
       /\ (last'.op = "Resource" /\ last'.group \in DOMAIN resources)
          => /\ views'[last'.view].override.active
                  = (resources[last'.group].overrideGroup # "")
             /\ views'[last'.view].override.data = NoData]_vars

C9_Witness ==
    /\ last.op = "overrideGroup"
    /\ last.present
    /\ last.path # ""
    /\ resources[last.group].overrideGroup = last.path
    /\ DOMAIN LastManifest # {}
    /\ \E v \in ViewIds :
          /\ views[v].live
          /\ views[v].group = last.group
          /\ ~views[v].override.active

\* C10: compile() of an empty list writes a call of registerData() with
\* count 0 and three null pointers; registerData() with count 0 registers
\* the group with no resources whatever the three pointers are;
\* Resource(group) of a registered group constructs, and list() of a group
\* without resources is empty.
C10_EmptyList ==
    /\ compile(<<>>) = [valid |-> TRUE, count |-> 0, positions |-> nullptr,
                        filenames |-> nullptr, data |-> nullptr]
    /\ (last.op = "registerData" /\ ~last.present /\ last.args.count = 0)
       => /\ last.group \in DOMAIN resources
          /\ DOMAIN LastManifest = {}
    /\ (last.op = "Resource" /\ last.present)
       => /\ last.status = "ok"
          /\ LastView.live
    /\ (last.op = "list" /\ last.status = "ok" /\ DOMAIN LastManifest = {})
       => last.text = <<>>

C10_Witness ==
    /\ last.op = "registerData"
    /\ ~last.present
    /\ last.args.count = 0
    /\ ~last.args.positions.null
    /\ ~last.args.data.null
    /\ DOMAIN LastManifest = {}

\* C11: when the override file of the group cannot be read or parsed, so that
\* the configuration holds no group and no [file] group, Resource(group)
\* still constructs the object, and getRaw(name) on it returns what it
\* returns without override: the view registered for a name of the group,
\* the failed assertion for any other name; no file is loaded and nothing
\* is stored.
C11_ManifestFailureIsNoOverride ==
    [][/\ (last'.op = "Resource" /\ last'.group \in DOMAIN resources)
          => /\ last'.status = "ok"
             /\ views'[last'.view].live
       /\ (/\ last'.op = "getRaw"
           /\ last'.status # "undefined"
           /\ views[last'.view].override.active
           /\ views[last'.view].override.conf = EmptyConfiguration)
          => /\ IF last'.name \in DOMAIN resources[last'.group].resources
                THEN /\ last'.status = "ok"
                     /\ last'.ret = resources[last'.group].resources[last'.name]
                ELSE /\ last'.status = "assert"
                     /\ last'.ret = nullptr
             /\ ~last'.load.called
             /\ views' = views
             /\ resources' = resources]_vars

C11_Witness ==
    /\ RawCall
    /\ LastView.override.active
    /\ LastView.override.conf = EmptyConfiguration
    /\ last.name \in DOMAIN LastManifest
    /\ last.ret = Pointer(Old)
    /\ last.disk[last.name].exists

\* Numbers given by their bytes in native order: equality and order.
byteAt(u, k) == IF k <= Len(u) THEN u[k] ELSE 0

sameNumber(u, v) ==
    \A k \in 1..(Len(u) + Len(v)) : byteAt(u, k) = byteAt(v, k)

lessOrEqual(u, v) ==
    \/ sameNumber(u, v)
    \/ \E k \in 1..(Len(u) + Len(v)) :
          /\ byteAt(u, k) < byteAt(v, k)
          /\ \A j \in (k + 1)..(Len(u) + Len(v)) : byteAt(u, j) = byteAt(v, j)

\* The counter `which` (0: names, 1: data) of entry i of the positions array
\* registered last; entry 0 stands for the zero before the first file.
LastPosition(i, which) ==
    IF i = 0 THEN numberToString(0)
    ELSE Slice(last.args.positions.bytes,
               (i - 1) * 2 * sizeofUInt + which * sizeofUInt, sizeofUInt)

\* registerData() ran on the table compile() wrote for files of given sizes.
SizesDecoded == last.op = "registerData" /\ Len(last.sizes) > 0

\* C12, as stated: in the positions array compile() writes, each of the two
\* counters of file i is at least its value for file i-1 (0 before the first
\* file), and the lengths registerData() computes for file i, the difference
\* of the counters of files i and i-1, are the length of the file's name and
\* of its content; the counters are unsigned int of sizeofUInt bytes.
C12_OffsetsMonotoneLengthsExact ==
    SizesDecoded
    => \A i \in 1..Len(last.sizes) :
          /\ lessOrEqual(LastPosition(i - 1, 0), LastPosition(i, 0))
          /\ lessOrEqual(LastPosition(i - 1, 1), LastPosition(i, 1))
          /\ sameNumber(last.lengths[i].name, last.sizes[i].name)
          /\ sameNumber(last.lengths[i].content, last.sizes[i].content)

\* On every list of files that is written out, the loops on sizes give the
\* positions array of compile() and the lengths of the names and contents.
SizesOf(files) ==
    [i \in 1..Len(files) |->
        FileSize(numberToString(Len(files[i].name)),
                 numberToString(Len(files[i].content)))]

CountersAgree ==
    \A files \in CodecLists \ {<<>>} :
        LET positions == compileSizes(SizesOf(files), 1,
                            [positions |-> <<>>,
                             filenamesLen |-> numberToString(0),
                             dataLen |-> numberToString(0)])
            lengths == registerSizes(Len(files), Compiled[files].positions, 0,
                                     numberToString(0), numberToString(0))
        IN  /\ Compiled[files].positions.bytes = positions
            /\ \A i \in 1..Len(files) :
                  /\ uintValue(lengths[i].name) = Len(files[i].name)
                  /\ uintValue(lengths[i].content) = Len(files[i].content)

\* Two files whose contents together do not fit an unsigned int, each
\* fitting one: the data counter of the second is below that of the first.
C12_Witness ==
    /\ CountersAgree
    /\ SizesDecoded
    /\ Len(last.sizes) = 2
    /\ \A i \in 1..2 : Len(last.sizes[i].content) <= sizeofUInt
    /\ ~lessOrEqual(LastPosition(1, 1), LastPosition(2, 1))
    /\ sameNumber(last.lengths[2].content, last.sizes[2].content)

\* C13: a file that getRaw(name) loaded through the override is stored under
\* `name`; as long as the Resource object lives, no step removes or changes
\* what is stored; and getRaw(name) of a stored name returns the stored
\* bytes without looking at the [file] groups or the disk, whatever the
\* disk holds by then.
C13_CacheGrowOnlyAuthoritative ==
    [][/\ \A v \in ViewIds :
             (views[v].live /\ views'[v].live)
             => \A n \in DOMAIN views[v].override.data :
                   /\ n \in DOMAIN views'[v].override.data
                   /\ views'[v].override.data[n] = views[v].override.data[n]
       /\ (last'.op = "getRaw" /\ last'.load.success)
          => /\ last'.name \in DOMAIN views'[last'.view].override.data
             /\ last'.ret = Ref(views'[last'.view].override.data[last'.name])
       /\ (/\ last'.op = "getRaw"
           /\ last'.status # "undefined"
           /\ last'.name \in DOMAIN views[last'.view].override.data)
          => /\ last'.status = "ok"
             /\ last'.ret = Ref(views[last'.view].override.data[last'.name])
             /\ ~last'.load.called
             /\ ~last'.warned
             /\ views' = views]_vars

C13_Witness ==
    /\ RawCall
    /\ last.cached
    /\ last.ret = Ref(New)
    /\ ~last.disk[DeclaredFile(LastFiles, last.name)].exists
    /\ \E n \in Names \ {last.name} : last.disk[n] = DiskFile(Newer)

\* C14: when several [file] groups of the override configuration are looked
\* up by `name`, getRaw(name) loads the file of the first of them in file
\* order and no other: it returns that file's bytes when it can be read and
\* the null view when it cannot, whether or not the file of a later group
\* can be read.
C14_FirstMatchOnly ==
    Declared
    => /\ last.load.called
       /\ last.load.filename = DeclaredFile(LastFiles, last.name)
       /\ last.load.success = last.disk[DeclaredFile(LastFiles, last.name)].exists
       /\ last.ret = (IF last.disk[DeclaredFile(LastFiles, last.name)].exists
                      THEN Ref(last.disk[DeclaredFile(LastFiles, last.name)].bytes)
                      ELSE nullptr)

C14_Witness ==
    /\ Declared
    /\ Cardinality(Declaring(LastFiles, last.name)) = 2
    /\ LastFiles[1].filename # LastFiles[2].filename
    /\ ~last.disk[LastFiles[1].filename].exists
    /\ last.disk[LastFiles[2].filename].exists
    /\ last.ret = nullptr

AliasOf(file) == IF file.hasAlias THEN file.alias ELSE file.filename

\* C16, as stated: compileFrom() returns the empty string when the
\* configuration file is missing, when a file that a [file] group declares
\* is missing, when the group name is empty, or when the filename or the
\* alias of a [file] group is empty; it returns a source file only when
\* none of these holds.
C16_AllOrNothing ==
    last.op = "compileFrom"
    => (last.artifact.empty
        <=> \/ ~last.conf.exists
            \/ last.conf.conf.group = ""
            \/ \E k \in 1..Len(last.conf.conf.files) :
                  \/ last.conf.conf.files[k].filename = <<>>
                  \/ AliasOf(last.conf.conf.files[k]) = <<>>
                  \/ ~last.disk[last.conf.conf.files[k].filename].exists)

\* A configuration file whose value "group" is empty and whose files can all
\* be read is compiled into a source file that registers the group "".
C16_Witness ==
    /\ last.op = "compileFrom"
    /\ last.conf.exists
    /\ last.conf.hasGroup
    /\ last.conf.conf.group = ""
    /\ Len(last.conf.conf.files) > 0
    /\ ~last.artifact.empty
    /\ last.artifact.group = ""
    /\ last.artifact.args.count = Len(last.conf.conf.files)

\* C17: get(name) returns the bytes of the view getRaw(name) returns, and the
\* empty string when getRaw(name) returns no view: when the file the
\* override declares cannot be loaded, and when the name is not found.  A
\* registered file is returned byte for byte; one of length zero gives the
\* empty string as well.
C17_GetIsRawAsText ==
    (last.op = "get" /\ last.status # "undefined")
    => /\ last.text = (IF last.ret.null THEN <<>> ELSE last.ret.bytes)
       /\ (last.load.called /\ ~last.load.success)
          => (last.ret = nullptr /\ last.text = <<>>)
       /\ last.status = "assert"
          => (last.ret = nullptr /\ last.text = <<>>)
       /\ (/\ last.status = "ok"
           /\ ~last.load.called
           /\ ~last.cached)
          => /\ last.name \in DOMAIN LastManifest
             /\ last.text = LastManifest[last.name].bytes

C17_Witness ==
    /\ last.op = "get"
    /\ last.status = "ok"
    /\ last.load.called
    /\ ~last.load.success
    /\ last.name \in DOMAIN LastManifest
    /\ LastManifest[last.name] = Pointer(Old)
    /\ last.text = <<>>

\* C18: the override file is held in the group's registration:
\* unregisterData() removes the group with it, registerData() of a group
\* that is not registered stores no override file, also right after the
\* group was unregistered; a Resource constructed while the group has no
\* override file has no override, and get() on it loads nothing and
\* returns the registered bytes.
C18_UnregisterDiscardsOverride ==
    [][/\ (last'.op = "unregisterData" /\ last'.status = "ok")
          => last'.group \notin DOMAIN resources'
       /\ (last'.op = "registerData" /\ last'.group \notin DOMAIN resources)
          => /\ last'.group \in DOMAIN resources'
             /\ resources'[last'.group].overrideGroup = ""
       /\ (/\ last.op = "unregisterData"
           /\ last.status = "ok"
           /\ last'.op = "registerData"
           /\ last'.group = last.group)
          => /\ last'.group \in DOMAIN resources'
             /\ resources'[last'.group].overrideGroup = ""
       /\ (/\ last'.op = "Resource"
           /\ last'.status = "ok"
           /\ resources[last'.group].overrideGroup = "")
          => ~views'[last'.view].override.active
       /\ (/\ last'.op = "get"
           /\ last'.status # "undefined"
           /\ ~views[last'.view].override.active)
          => /\ ~last'.load.called
             /\ last'.name \in DOMAIN resources[last'.group].resources
                => last'.ret = resources[last'.group].resources[last'.name]]_vars

\* The group was registered, given an override file, a Resource with that
\* override was constructed, the group was unregistered and is registered
\* anew: it has no override file.
C18_Witness ==
    /\ last.op = "registerData"
    /\ ~last.present
    /\ last.group \in DOMAIN resources
    /\ resources[last.group].overrideGroup = ""
    /\ DOMAIN LastManifest # {}
    /\ \E v \in ViewIds :
          /\ views[v].live
          /\ views[v].dangling
          /\ views[v].group = last.group
          /\ views[v].override.active

\* The content of the first file of the list that is named `name`.
FirstContent(files, name) ==
    files[CHOOSE k \in 1..Len(files) :
            /\ files[k].name = name
            /\ \A j \in 1..(k - 1) : files[j].name # name].content

\* C19: the names of a group are unique: registerData() on the arrays
\* compile() wrote for a list stores one entry for each name of the list
\* and no other, a repeated name with the content of its first file, the
\* names after it with their own contents; list() gives each name once.
C19_FirstOccurrenceKept ==
    /\ Decoded
       => /\ DOMAIN LastManifest = {last.files[i].name : i \in 1..Len(last.files)}
          /\ \A n \in DOMAIN LastManifest :
                LastManifest[n].bytes = FirstContent(last.files, n)
    /\ (last.op = "list" /\ last.status = "ok")
       => \A i, j \in 1..Len(last.text) : i # j => last.text[i] # last.text[j]

C19_Witness ==
    /\ Decoded
    /\ Len(last.files) = 3
    /\ last.files[1].name = last.files[2].name
    /\ last.files[1].content # last.files[2].content
    /\ Cardinality(DOMAIN LastManifest) = 2
    /\ LastManifest[last.files[2].name].bytes = last.files[1].content
    /\ LastManifest[last.files[3].name].bytes = last.files[3].content

\* C20: when the override configuration declares `name` with a file that can
\* be read and the group holds no file `name`, getRaw(name) returns the
\* bytes of the file on disk and stores them, and the next getRaw(name)
\* returns them again, although list() of the group does not name `name`
\* and the group's resources are unchanged.
C20_OverrideServesUnlistedNames ==
    /\ (/\ Declared
        /\ last.name \notin DOMAIN LastManifest
        /\ last.disk[DeclaredFile(LastFiles, last.name)].exists)
       => /\ last.status = "ok"
          /\ last.ret = Ref(last.disk[DeclaredFile(LastFiles, last.name)].bytes)
          /\ last.name \in DOMAIN LastView.override.data
          /\ \A i \in 1..Len(list(resources[last.group])) :
                list(resources[last.group])[i] # last.name
    /\ (RawCall /\ last.cached /\ last.name \notin DOMAIN LastManifest)
       => /\ last.status = "ok"
          /\ last.ret = Ref(LastView.override.data[last.name])

C20_Witness ==
    /\ Declared
    /\ DOMAIN LastManifest # {}
    /\ last.name \notin DOMAIN LastManifest
    /\ last.status = "ok"
    /\ last.ret = Ref(New)
    /\ list(resources[last.group]) = <<NameA>>

====
